---- MODULE Spec2Model ----
(***************************************************************************)
(* Model of the Board type of the game-of-life crate (src/src/board.rs).    *)
(*                                                                         *)
(* A Vec<Vec<i8>> is a sequence of sequences; the Rust index i is the TLA+  *)
(* index i + 1.  A panic ends the program: once status = "panicked" no      *)
(* operation is enabled any more.                                           *)
(***************************************************************************)
EXTENDS Integers, Sequences, FiniteSets, TLC

\* ------------------------------------------------------------------------
\* Bounds of the model
\* ------------------------------------------------------------------------
MaxX == 3
MaxY == 3
MaxOps == 4
\* The longest run of ticks followed from one fixed pattern.
MaxTicks == 120
\* The longest side of a grid that holds one block.
MaxBlockSide == 5
\* The largest number of cells of a grid whose scratch buffer and population
\* are arbitrary.
MaxScratchCells == 6
\* The longest short side of a grid whose other side is close to the
\* greatest i8, and the number of such long sides.
MaxThin == 3

\* Arguments handed to Board::new in the main specification (positive).
Widths == 1..MaxX
Heights == 1..MaxY
\* Arguments handed to Board::new when non-positive sizes are tried as well.
AnyWidths == (0 - 1)..MaxX
AnyHeights == (0 - 1)..MaxY
\* Coordinates handed to player_toggle_cell and get_neighbour_count: every
\* in-grid coordinate, and one step and more beyond each edge.
XArgs == (0 - 1)..MaxX
YArgs == (0 - 1)..MaxY

VARIABLES
    size_x,      \* Board.size_x
    size_y,      \* Board.size_y
    board,       \* Board.board
    next_board,  \* Board.next_board
    population,  \* Board.population
    status,      \* "ok", or "panicked" once an operation has panicked
    lastOp,      \* the operation that produced this state, with its arguments
    ret,         \* value returned by the last get_neighbour_count call
    prev,        \* the public fields as they were before the last operation
    streak,      \* how many times in a row lastOp has been called (capped at 2)
    nops,        \* number of operations called since construction
    generation,  \* main: generation
    board_x,     \* main: board_x
    board_y,     \* main: board_y
    pressed_keys, \* main: pressed_keys, restricted to the one key main looks up
    cursor_pos,  \* the last cursor position main has been told, or <<>>
    pc           \* main: the part of the loop body that runs next

\* The locals of main.
loop == <<generation, board_x, board_y, pressed_keys, cursor_pos, pc>>

vars == <<size_x, size_y, board, next_board, population, status, lastOp, ret, prev,
          streak, nops, loop>>

\* ------------------------------------------------------------------------
\* Machine arithmetic
\* ------------------------------------------------------------------------

\* i8 wrap-around, as a release build computes an overflowing i8 operation.
WrapI8(v) == ((v + 128) % 256) - 128

\* TRUE iff the mathematical result v does not fit an i8 (a debug build panics).
OverflowsI8(v) == v < (0 - 128) \/ v > 127

\* `v as usize` for an i8 v: a negative v is sign-extended and becomes
\* 2^64 + v.  The model's integers are 32 bits wide, so the modulus is scaled
\* to 2^30; a Vec of this program has at most 127 elements, so every
\* comparison of the converted index with a length has the same outcome.
UsizeSpan == 2^30
\* Mutant: a negative index clamped onto the first element.
AsUsizeClamped(v) == IF v < 0 THEN 0 ELSE v

AsUsize(v) == IF v < 0 THEN UsizeSpan + v ELSE v

\* Vec indexing vec[i] panics unless i < vec.len().
IndexOk(vec, i) == i < Len(vec)

\* u64 values are kept as residues modulo 2^64 with 2^64 - 1 written as -1,
\* so only the two overflowing cases need naming.
U64AddOverflows(p) == p = 0 - 1
U64SubOverflows(p) == p = 0

\* ------------------------------------------------------------------------
\* Board::make_board, Board::new
\* ------------------------------------------------------------------------

\* `for _ in 0..n { vec.push(item) }`; the range is empty when n <= 0.
RECURSIVE PushTimes(_, _, _)
PushTimes(vec, n, item) ==
    IF n <= 0 THEN vec ELSE PushTimes(Append(vec, item), n - 1, item)

\* Mutant: the two sizes taken the wrong way round.
make_board_swapped(sx, sy) == PushTimes(<<>>, sx, PushTimes(<<>>, sy, 0))

make_board(sx, sy) == PushTimes(<<>>, sy, PushTimes(<<>>, sx, 0))

\* The cell at row y, column x (Rust indices).
Cell(b, x, y) == b[y + 1][x + 1]

\* b with the cell at row y, column x set to v.
SetCell(b, x, y, v) == [b EXCEPT ![y + 1][x + 1] = v]

NoOp == [op |-> "new", x |-> 0, y |-> 0]
NoPrev == [size_x |-> 0, size_y |-> 0, board |-> <<>>, population |-> 0]

\* The locals of main as they are set up in front of the loop.
LoopStart ==
    /\ generation = 0
    /\ board_x = 0
    /\ board_y = 0
    /\ pressed_keys = {}
    /\ cursor_pos = <<>>
    /\ pc = "event"

\* Mutant: the buffer next_board built with its two sizes exchanged.
NewScratchSwapped(w, h) ==
    /\ size_x = w
    /\ size_y = h
    /\ board = make_board(w, h)
    /\ next_board = make_board(h, w)
    /\ population = 0
    /\ status = "ok"
    /\ lastOp = NoOp
    /\ ret = 0
    /\ prev = NoPrev
    /\ streak = 1
    /\ nops = 0
    /\ LoopStart

\* Board::new(w, h).
New(w, h) ==
    /\ size_x = w
    /\ size_y = h
    /\ board = make_board(w, h)
    /\ next_board = make_board(w, h)
    /\ population = 0
    /\ status = "ok"
    /\ lastOp = NoOp
    /\ ret = 0
    /\ prev = NoPrev
    /\ streak = 1
    /\ nops = 0
    /\ LoopStart

Init == \E w \in Widths, h \in Heights : New(w, h)

\* ------------------------------------------------------------------------
\* Bookkeeping shared by the operations
\* ------------------------------------------------------------------------
CalledWithin(op, limit) ==
    /\ status = "ok"
    /\ nops < limit
    /\ nops' = nops + 1
    /\ lastOp' = op
    /\ prev' = [size_x |-> size_x, size_y |-> size_y,
                board |-> board, population |-> population]
    /\ streak' = IF op = lastOp THEN 2 ELSE 1

Called(op) == CalledWithin(op, MaxOps)

\* The results an operation can have when one of its arithmetic operations
\* overflows: a debug build panics, a release build wraps and goes on.
Outcomes(overflows) == IF overflows THEN {"ok", "panicked"} ELSE {"ok"}

\* ------------------------------------------------------------------------
\* Board::get_neighbour_count
\* ------------------------------------------------------------------------

\* The bounds test in front of the indexing.
InBoard(sx, sy, nx, ny) == nx >= 0 /\ nx < sx /\ ny >= 0 /\ ny < sy

\* What one pass of the loop body adds to neighbour_count for the neighbour
\* (nx, ny).
Contribution(b, sx, sy, nx, ny) ==
    IF InBoard(sx, sy, nx, ny) THEN Cell(b, AsUsize(nx), AsUsize(ny)) ELSE 0

\* `x + dx` as a release build computes it.
AddI8(x, dx) == IF OverflowsI8(x + dx) THEN WrapI8(x + dx) ELSE x + dx

\* The two loops unrolled, dy outermost and (0, 0) skipped: xm, x, xp are
\* x - 1, x, x + 1 and ym, y, yp are y - 1, y, y + 1.  Every cell holds 0 or
\* 1, so the sum is at most 8 and the i8 accumulator cannot overflow.
CountAround(b, sx, sy, xm, x, xp, ym, y, yp) ==
      Contribution(b, sx, sy, xm, ym) + Contribution(b, sx, sy, x, ym)
    + Contribution(b, sx, sy, xp, ym) + Contribution(b, sx, sy, xm, y)
    + Contribution(b, sx, sy, xp, y)  + Contribution(b, sx, sy, xm, yp)
    + Contribution(b, sx, sy, x, yp)  + Contribution(b, sx, sy, xp, yp)

\* Mutant: the grid closed into a torus, every neighbour taken modulo the size.
get_neighbour_count_torus(b, sx, sy, x, y) ==
    [count |-> CountAround(b, sx, sy,
                           (x - 1 + sx) % sx, x, (x + 1) % sx,
                           (y - 1 + sy) % sy, y, (y + 1) % sy),
     overflow |-> FALSE]

\* Mutant: the cell itself is not skipped, it is counted with its neighbours.
get_neighbour_count_with_centre(b, sx, sy, x, y) ==
    [count |-> CountAround(b, sx, sy,
                           AddI8(x, 0 - 1), x, AddI8(x, 1),
                           AddI8(y, 0 - 1), y, AddI8(y, 1))
               + Contribution(b, sx, sy, x, y),
     overflow |-> \/ OverflowsI8(x - 1) \/ OverflowsI8(x + 1)
                  \/ OverflowsI8(y - 1) \/ OverflowsI8(y + 1)]

\* count is the value returned; overflow tells whether one of the i8
\* additions x + dx, y + dy overflows.
get_neighbour_count(b, sx, sy, x, y) ==
    [count |-> CountAround(b, sx, sy,
                           AddI8(x, 0 - 1), x, AddI8(x, 1),
                           AddI8(y, 0 - 1), y, AddI8(y, 1)),
     overflow |-> \/ OverflowsI8(x - 1) \/ OverflowsI8(x + 1)
                  \/ OverflowsI8(y - 1) \/ OverflowsI8(y + 1)]

\* A call of get_neighbour_count(x, y) from outside the board.
NeighbourCount(x, y) ==
    /\ Called([op |-> "count", x |-> x, y |-> y])
    /\ \E r \in {get_neighbour_count(board, size_x, size_y, x, y)} :
           /\ status' \in Outcomes(r.overflow)
           /\ ret' = IF status' = "ok" THEN r.count ELSE ret
    /\ UNCHANGED <<size_x, size_y, board, next_board, population>>

\* ------------------------------------------------------------------------
\* Board::player_toggle_cell
\* ------------------------------------------------------------------------

\* Mutant: the cell is set alive whatever it held.
ToggledCellAlwaysAlive(c) == 1

\* The value the toggled cell gets.
ToggledCell(c) == IF c = 0 THEN 1 ELSE 0

\* Mutant: the decrement forgotten.
ToggledPopulationNoDecrement(c, p) == IF c = 0 THEN p + 1 ELSE p

\* Mutant: the counter moved the wrong way.
ToggledPopulationInverted(c, p) == IF c = 0 THEN p - 1 ELSE p + 1

\* The value population gets when a cell holding c is toggled.
ToggledPopulation(c, p) == IF c = 0 THEN p + 1 ELSE p - 1

\* TRUE iff `&mut self.board[board_y as usize][board_x as usize]` panics.
ToggleIndexPanics(b, x, y) ==
    \/ ~IndexOk(b, AsUsize(y))
    \/ ~IndexOk(b[AsUsize(y) + 1], AsUsize(x))

player_toggle_cell(x, y) ==
    /\ Called([op |-> "toggle", x |-> x, y |-> y])
    /\ IF ToggleIndexPanics(board, x, y)
       THEN /\ status' = "panicked"
            /\ UNCHANGED <<board, population>>
       ELSE LET c == Cell(board, AsUsize(x), AsUsize(y))
                ovf == IF c = 0 THEN U64AddOverflows(population)
                                ELSE U64SubOverflows(population)
            IN  /\ board' = SetCell(board, AsUsize(x), AsUsize(y), ToggledCell(c))
                /\ status' \in Outcomes(ovf)
                /\ population' = IF status' = "ok"
                                 THEN ToggledPopulation(c, population)
                                 ELSE population
    /\ UNCHANGED <<size_x, size_y, next_board, ret>>

\* ------------------------------------------------------------------------
\* Board::clear_board
\* ------------------------------------------------------------------------

RECURSIVE ClearCells(_, _, _, _, _)

\* Mutant: the inner loop stops one column early.
RECURSIVE ClearCellsShort(_, _, _, _, _)
ClearCellsShort(b, sx, sy, x, y) ==
    IF y >= sy THEN b
    ELSE IF x >= sx - 1 THEN ClearCellsShort(b, sx, sy, 0, y + 1)
    ELSE ClearCellsShort(SetCell(b, AsUsize(x), AsUsize(y), 0), sx, sy, x + 1, y)

\* The two loops from row y, column x on.
ClearCells(b, sx, sy, x, y) ==
    IF y >= sy THEN b
    ELSE IF x >= sx THEN ClearCells(b, sx, sy, 0, y + 1)
    ELSE ClearCells(SetCell(b, AsUsize(x), AsUsize(y), 0), sx, sy, x + 1, y)

clear_board ==
    /\ Called([op |-> "clear", x |-> 0, y |-> 0])
    /\ board' = ClearCells(board, size_x, size_y, 0, 0)
    /\ population' = 0
    /\ status' = "ok"
    /\ UNCHANGED <<size_x, size_y, next_board, ret>>

\* ------------------------------------------------------------------------
\* Board::tick
\* ------------------------------------------------------------------------

\* Mutant: a live cell survives with exactly 3 live neighbours only.
NextStateSurviveOn3(current_state, neighbour_count) ==
    IF neighbour_count = 3 THEN 1 ELSE 0

\* Mutant: a dead cell comes alive with up to 3 live neighbours.
NextStateBirthUpTo3(current_state, neighbour_count) ==
    IF current_state = 1
    THEN IF neighbour_count = 2 \/ neighbour_count = 3 THEN 1 ELSE 0
    ELSE IF neighbour_count <= 3 THEN 1 ELSE 0

\* Mutant: a live cell survives with exactly 2 live neighbours only.
NextStateSurviveOn2(current_state, neighbour_count) ==
    IF current_state = 1
    THEN IF neighbour_count = 2 THEN 1 ELSE 0
    ELSE IF neighbour_count = 3 THEN 1 ELSE 0

\* The rule: the next state of a cell holding current_state.
NextState(current_state, neighbour_count) ==
    IF current_state = 1
    THEN IF neighbour_count = 2 \/ neighbour_count = 3 THEN 1 ELSE 0
    ELSE IF neighbour_count = 3 THEN 1 ELSE 0

RECURSIVE TickCells(_, _, _, _, _, _, _, _)

\* Mutant: the next state written into self.board itself, so that later cells
\* count neighbours that this generation has already updated.
RECURSIVE TickCellsInPlace(_, _, _, _, _, _, _, _)
TickCellsInPlace(b, nb, sx, sy, x, y, np, ovf) ==
    IF y >= sy THEN [board |-> nb, next |-> b, pop |-> np, overflow |-> ovf]
    ELSE IF x >= sx THEN TickCellsInPlace(b, nb, sx, sy, 0, y + 1, np, ovf)
    ELSE
        LET r == get_neighbour_count(b, sx, sy, x, y)
            current_state == Cell(b, AsUsize(x), AsUsize(y))
            b1 == SetCell(b, AsUsize(x), AsUsize(y), NextState(current_state, r.count))
            np1 == IF Cell(b1, AsUsize(x), AsUsize(y)) = 1 THEN np + 1 ELSE np
        IN  TickCellsInPlace(b1, nb, sx, sy, x + 1, y, np1, ovf \/ r.overflow)

\* Mutant: only the cells that live are written into self.next_board; a cell
\* that dies keeps whatever the buffer held.
RECURSIVE TickCellsSkipDead(_, _, _, _, _, _, _, _)
TickCellsSkipDead(b, nb, sx, sy, x, y, np, ovf) ==
    IF y >= sy THEN [board |-> b, next |-> nb, pop |-> np, overflow |-> ovf]
    ELSE IF x >= sx THEN TickCellsSkipDead(b, nb, sx, sy, 0, y + 1, np, ovf)
    ELSE
        LET r == get_neighbour_count(b, sx, sy, x, y)
            current_state == Cell(b, AsUsize(x), AsUsize(y))
            nb1 == IF NextState(current_state, r.count) = 1
                   THEN SetCell(nb, AsUsize(x), AsUsize(y), 1)
                   ELSE nb
            np1 == IF Cell(nb1, AsUsize(x), AsUsize(y)) = 1 THEN np + 1 ELSE np
        IN  TickCellsSkipDead(b, nb1, sx, sy, x + 1, y, np1, ovf \/ r.overflow)

\* Mutant: new_population counts the cells of the generation that is left,
\* not those of the one that was computed.
RECURSIVE TickCellsCountsOld(_, _, _, _, _, _, _, _)
TickCellsCountsOld(b, nb, sx, sy, x, y, np, ovf) ==
    IF y >= sy THEN [board |-> b, next |-> nb, pop |-> np, overflow |-> ovf]
    ELSE IF x >= sx THEN TickCellsCountsOld(b, nb, sx, sy, 0, y + 1, np, ovf)
    ELSE
        LET r == get_neighbour_count(b, sx, sy, x, y)
            current_state == Cell(b, AsUsize(x), AsUsize(y))
            nb1 == SetCell(nb, AsUsize(x), AsUsize(y), NextState(current_state, r.count))
            np1 == IF current_state = 1 THEN np + 1 ELSE np
        IN  TickCellsCountsOld(b, nb1, sx, sy, x + 1, y, np1, ovf \/ r.overflow)

\* The two loops from row y, column x on: b is self.board, nb is
\* self.next_board, np is new_population, ovf tells whether an i8 operation
\* has overflowed.
TickCells(b, nb, sx, sy, x, y, np, ovf) ==
    IF y >= sy THEN [board |-> b, next |-> nb, pop |-> np, overflow |-> ovf]
    ELSE IF x >= sx THEN TickCells(b, nb, sx, sy, 0, y + 1, np, ovf)
    ELSE
        LET r == get_neighbour_count(b, sx, sy, x, y)
            current_state == Cell(b, AsUsize(x), AsUsize(y))
            nb1 == SetCell(nb, AsUsize(x), AsUsize(y), NextState(current_state, r.count))
            np1 == IF Cell(nb1, AsUsize(x), AsUsize(y)) = 1 THEN np + 1 ELSE np
        IN  TickCells(b, nb1, sx, sy, x + 1, y, np1, ovf \/ r.overflow)

\* The loops, then the swap of the two buffers.  A panic inside the loops ends
\* the program with the public fields as they were.
tick_within(limit) ==
    /\ CalledWithin([op |-> "tick", x |-> 0, y |-> 0], limit)
    /\ \E r \in {TickCells(board, next_board, size_x, size_y, 0, 0, 0, FALSE)} :
           /\ status' \in Outcomes(r.overflow)
           /\ IF status' = "ok"
              THEN /\ board' = r.next        \* std::mem::swap
                   /\ next_board' = r.board
                   /\ population' = r.pop
              ELSE UNCHANGED <<board, next_board, population>>
    /\ UNCHANGED <<size_x, size_y, ret>>

tick == tick_within(MaxOps)

\* ------------------------------------------------------------------------
\* Specifications
\* ------------------------------------------------------------------------
Toggle == \E x \in XArgs, y \in YArgs : player_toggle_cell(x, y) /\ UNCHANGED loop
Tick == tick /\ UNCHANGED loop
Clear == clear_board /\ UNCHANGED loop

\* A board built with positive sizes and driven through its mutating
\* operations.
Next == Toggle \/ Tick \/ Clear

Spec == Init /\ [][Next]_vars

\* The operations called with arguments inside the grid only.
ToggleInGrid ==
    \E x \in XArgs, y \in YArgs :
        /\ x >= 0 /\ x < size_x /\ y >= 0 /\ y < size_y
        /\ player_toggle_cell(x, y)
        /\ UNCHANGED loop

NextInGrid == ToggleInGrid \/ Tick \/ Clear

SpecInGrid == Init /\ [][NextInGrid]_vars

\* The same operations on a board built with any sizes, positive or not.
InitAnySize == \E w \in AnyWidths, h \in AnyHeights : New(w, h)

SpecNew == InitAnySize /\ [][Next]_vars

\* Every row of w cells, every grid of h such rows.
RECURSIVE AllRows(_)
AllRows(w) ==
    IF w = 0 THEN {<<>>} ELSE {Append(r, c) : r \in AllRows(w - 1), c \in {0, 1}}

RECURSIVE AllBoards(_, _)
AllBoards(w, h) ==
    IF h = 0 THEN {<<>>} ELSE {Append(b, r) : b \in AllBoards(w, h - 1), r \in AllRows(w)}

\* The number of cells of b that hold 1.
LiveCells(b) ==
    Cardinality({p \in UNION {{<<i, j>> : j \in DOMAIN b[i]} : i \in DOMAIN b} :
                     b[p[1]][p[2]] = 1})

\* A board of any contents: Board::new(w, h) followed by one
\* player_toggle_cell for each cell that is to live.
GridOf(w, h, b) ==
    /\ size_x = w
    /\ size_y = h
    /\ board = b
    /\ next_board = make_board(w, h)
    /\ population = LiveCells(b)
    /\ status = "ok"
    /\ lastOp = NoOp
    /\ ret = 0
    /\ prev = NoPrev
    /\ streak = 1
    /\ nops = 0
    /\ LoopStart

InitGrid == \E w \in Widths, h \in Heights : \E b \in AllBoards(w, h) : GridOf(w, h, b)

Count == \E x \in XArgs, y \in YArgs : NeighbourCount(x, y) /\ UNCHANGED loop

\* One call of tick on a grid of any contents.
TickOnce == nops = 0 /\ Tick

SpecTick == InitGrid /\ [][TickOnce]_vars

\* One call of get_neighbour_count on a grid of any contents.
CountOnce == nops = 0 /\ Count

SpecCount == InitGrid /\ [][CountOnce]_vars

\* The grid of test_blinker_pattern: BlinkerSize rows of BlinkerSize cells,
\* the live cells written through the public field.
BlinkerSize == 5

BlinkerHorizontal ==
    [j \in 1..BlinkerSize |->
        [i \in 1..BlinkerSize |-> IF j - 1 = 2 /\ i - 1 \in 1..3 THEN 1 ELSE 0]]

BlinkerVertical ==
    [j \in 1..BlinkerSize |->
        [i \in 1..BlinkerSize |-> IF i - 1 = 2 /\ j - 1 \in 1..3 THEN 1 ELSE 0]]

InitBlinker == GridOf(BlinkerSize, BlinkerSize, BlinkerHorizontal)

\* One tick after another, MaxTicks of them at most.
TickOn == tick_within(MaxTicks) /\ UNCHANGED loop

SpecBlinker == InitBlinker /\ [][TickOn]_vars

\* The grid of w x h cells whose live cells are the 2 x 2 block with its top
\* left cell at (bx, by).
BlockAt(w, h, bx, by) ==
    [j \in 1..h |->
        [i \in 1..w |-> IF i - 1 \in bx..(bx + 1) /\ j - 1 \in by..(by + 1) THEN 1 ELSE 0]]

\* The sides of a grid that has room for a block and a dead cell on each
\* side of it.
BlockSides == 4..MaxBlockSide

\* The places of a block that leave at least one dead cell on every side.
BlockPlaces(w, h) == (1..(w - 3)) \X (1..(h - 3))

InitBlock ==
    \E w \in BlockSides, h \in BlockSides : \E p \in BlockPlaces(w, h) :
        GridOf(w, h, BlockAt(w, h, p[1], p[2]))

SpecBlock == InitBlock /\ [][TickOn]_vars

\* A board of any cells b whose buffer next_board holds any cells nb, as left
\* by earlier ticks, and whose public field population has been written to p.
ScratchGridOf(w, h, b, nb, p) ==
    /\ size_x = w
    /\ size_y = h
    /\ board = b
    /\ next_board = nb
    /\ population = p
    /\ status = "ok"
    /\ lastOp = NoOp
    /\ ret = 0
    /\ prev = NoPrev
    /\ streak = 1
    /\ nops = 0
    /\ LoopStart

\* The sizes of the grids of at most MaxScratchCells cells.
ScratchSizes ==
    {s \in (1..MaxScratchCells) \X (1..MaxScratchCells) : s[1] * s[2] <= MaxScratchCells}

\* The least and the greatest number of live cells a w x h grid can have.
Populations(w, h) == {0, w * h}

InitScratch ==
    \E s \in ScratchSizes :
        \E b \in AllBoards(s[1], s[2]), nb \in AllBoards(s[1], s[2]),
           p \in Populations(s[1], s[2]) :
            ScratchGridOf(s[1], s[2], b, nb, p)

\* One call of tick on a grid of any cells, buffer and population.
SpecScratch == InitScratch /\ [][TickOnce]_vars

\* The greatest value of the type i8 of size_x, size_y and the coordinates.
I8Max == 127

\* Grids with one side close to I8Max and the other short, wide or high.
LongSides == (I8Max - MaxThin + 1)..I8Max
ThinSides == 1..MaxThin
I8Sizes == (LongSides \X ThinSides) \cup (ThinSides \X LongSides)

\* The grid of w x h cells that all hold v.
FullBoard(w, h, v) == [j \in 1..h |-> [i \in 1..w |-> v]]

\* Board::new(w, h) and, for v = 1, one player_toggle_cell for every cell;
\* the buffer next_board is as make_board builds it.
InitI8 ==
    \E s \in I8Sizes, v \in {0, 1} :
        ScratchGridOf(s[1], s[2], FullBoard(s[1], s[2], v), FullBoard(s[1], s[2], 0),
                      v * s[1] * s[2])

\* One call of get_neighbour_count for a cell of the grid.  These are the
\* calls the loops of tick make, and the only i8 arithmetic of tick.
CountInGridOnce ==
    /\ nops = 0
    /\ \E x \in 0..(size_x - 1), y \in 0..(size_y - 1) : NeighbourCount(x, y)
    /\ UNCHANGED loop

SpecI8 == InitI8 /\ [][CountInGridOnce]_vars

\* ------------------------------------------------------------------------
\* main: the event loop
\* ------------------------------------------------------------------------

\* The side of a cell in pixels.
CELL_SIZE == 20

\* The sizes of the board main builds; the model takes the largest grid it
\* explores in place of the 50 x 50 one.
BOARD_WIDTH == MaxX
BOARD_HEIGHT == MaxY

\* The keys main can be told of: the three it acts on and one other.
Keys == {"Right", "R", "F", "Space"}

\* `v as i8` for a float v: the fraction is dropped (towards zero) and the
\* result saturates at the ends of i8.
FloatAsI8(num, den) ==
    LET q == IF num >= 0 THEN num \div den ELSE 0 - ((0 - num) \div den)
    IN  IF q > 127 THEN 127 ELSE IF q < 0 - 128 THEN 0 - 128 ELSE q

\* The cursor positions main is told of, along one axis of n cells: a cell
\* and a pixel to the left of the board, the first and the last pixel of the
\* board, the first pixel to the right of it.
Pixels(n) == {0 - CELL_SIZE, 0 - 1, 0, n * CELL_SIZE - 1, n * CELL_SIZE}

InitLoop == New(BOARD_WIDTH, BOARD_HEIGHT)

\* An event has been fetched and the program has not panicked.
AtEvent == pc = "event" /\ status = "ok"

\* The blocks of the loop body that an event does not match leave the board
\* alone.
BoardKept ==
    UNCHANGED <<size_x, size_y, board, next_board, population, status, lastOp, ret,
                prev, streak, nops>>

\* Mutant: the single step and the auto tick leave generation as it is.
AfterTickKept(g) == g

\* `generation += 1`.
AfterTick(g) == g + 1

\* Key::Right pressed: one generation.
PressRight ==
    /\ AtEvent
    /\ tick
    /\ generation' = IF status' = "ok" THEN AfterTick(generation) ELSE generation
    /\ pc' = "auto"
    /\ UNCHANGED <<board_x, board_y, pressed_keys, cursor_pos>>

\* Key::R pressed: the board is cleared.
PressR ==
    /\ AtEvent
    /\ clear_board
    /\ generation' = 0
    /\ pc' = "auto"
    /\ UNCHANGED <<board_x, board_y, pressed_keys, cursor_pos>>

\* Any other key pressed: it is only recorded.
PressOther ==
    \E key \in Keys \ {"Right", "R"} :
        /\ AtEvent
        /\ pressed_keys' = IF key = "F" THEN pressed_keys \cup {key} ELSE pressed_keys
        /\ pc' = "auto"
        /\ BoardKept
        /\ UNCHANGED <<generation, board_x, board_y, cursor_pos>>

\* The cursor has moved to pixel (mouse_x, mouse_y).
MouseCursor ==
    \E mouse_x \in Pixels(BOARD_WIDTH), mouse_y \in Pixels(BOARD_HEIGHT) :
        /\ AtEvent
        /\ board_x' = FloatAsI8(mouse_x, CELL_SIZE)
        /\ board_y' = FloatAsI8(mouse_y, CELL_SIZE)
        /\ cursor_pos' = <<mouse_x, mouse_y>>
        /\ pc' = "auto"
        /\ BoardKept
        /\ UNCHANGED <<generation, pressed_keys>>

\* The left mouse button pressed.
MousePress ==
    /\ AtEvent
    /\ player_toggle_cell(board_x, board_y)
    /\ pc' = "auto"
    /\ UNCHANGED <<generation, board_x, board_y, pressed_keys, cursor_pos>>

\* A key released.
KeyRelease ==
    \E key \in Keys :
        /\ AtEvent
        /\ pressed_keys' = pressed_keys \ {key}
        /\ pc' = "auto"
        /\ BoardKept
        /\ UNCHANGED <<generation, board_x, board_y, cursor_pos>>

\* An event of any other kind: a frame to render, an update, idling.
OtherEvent ==
    /\ AtEvent
    /\ pc' = "auto"
    /\ BoardKept
    /\ UNCHANGED <<generation, board_x, board_y, pressed_keys, cursor_pos>>

\* The last block of the loop body with Key::F held and the interval over.
AutoTick ==
    /\ pc = "auto"
    /\ "F" \in pressed_keys
    /\ tick
    /\ generation' = IF status' = "ok" THEN AfterTick(generation) ELSE generation
    /\ pc' = "event"
    /\ UNCHANGED <<board_x, board_y, pressed_keys, cursor_pos>>

\* The last block of the loop body with Key::F not held or the interval not
\* yet over.
AutoSkip ==
    /\ pc = "auto"
    /\ status = "ok"
    /\ pc' = "event"
    /\ BoardKept
    /\ UNCHANGED <<generation, board_x, board_y, pressed_keys, cursor_pos>>

NextLoop ==
    \/ PressRight
    \/ PressR
    \/ PressOther
    \/ MouseCursor
    \/ MousePress
    \/ KeyRelease
    \/ OtherEvent
    \/ AutoTick
    \/ AutoSkip

SpecLoop == InitLoop /\ [][NextLoop]_vars

\* ------------------------------------------------------------------------
\* Vocabulary of the properties
\* ------------------------------------------------------------------------

\* (x, y) lies in [0, sx) x [0, sy).
InGridOf(sx, sy, x, y) == x \in 0..(sx - 1) /\ y \in 0..(sy - 1)
InGrid(x, y) == InGridOf(size_x, size_y, x, y)

\* The coordinates of the grid, as <<x, y>>.
GridCells == (0..(size_x - 1)) \X (0..(size_y - 1))

Alive(b, c) == b[c[2] + 1][c[1] + 1] = 1

\* The grid positions next to c, orthogonally or diagonally.
Adjacent(c) ==
    {d \in ((c[1] - 1)..(c[1] + 1)) \X ((c[2] - 1)..(c[2] + 1)) :
         d /= c /\ InGrid(d[1], d[2])}

\* The number of live cells of b next to c.
LiveNeighbours(b, c) == Cardinality({d \in Adjacent(c) : Alive(b, d)})

\* A board of exactly sy rows of sx cells each.
HasShape(b, sx, sy) == Len(b) = sy /\ \A i \in DOMAIN b : Len(b[i]) = sx

\* No cell of b holds 1.
AllDead(b) == \A i \in DOMAIN b : \A j \in DOMAIN b[i] : b[i][j] = 0

LastCell == <<lastOp.x, lastOp.y>>

\* ------------------------------------------------------------------------
\* Properties
\* ------------------------------------------------------------------------

\* C1: in every state reached from Board::new by player_toggle_cell, tick and
\* clear_board, population is the number of cells of board that hold 1.
PopulationIsLiveCount == population = LiveCells(board)

\* C1 witness: a tick has produced a new generation that has live cells.
PopulationCountedAfterTick ==
    lastOp.op = "tick" /\ population > 0 /\ board /= prev.board

\* C2: after a tick every cell is alive iff, in the grid before the tick, it
\* was alive with 2 or 3 live neighbours or dead with exactly 3; the
\* neighbours are those of the grid before the tick.
TickAppliesRule ==
    lastOp.op = "tick" =>
        /\ status = "ok"
        /\ \A c \in GridCells :
               Alive(board, c) <=>
                   \/ Alive(prev.board, c) /\ LiveNeighbours(prev.board, c) \in {2, 3}
                   \/ ~Alive(prev.board, c) /\ LiveNeighbours(prev.board, c) = 3

\* C2 witness: one tick in which a cell was born, one died and one survived.
TickBornDiedSurvived ==
    /\ lastOp.op = "tick"
    /\ \E c \in GridCells : ~Alive(prev.board, c) /\ Alive(board, c)
    /\ \E c \in GridCells : Alive(prev.board, c) /\ ~Alive(board, c)
    /\ \E c \in GridCells : Alive(prev.board, c) /\ Alive(board, c)

\* C3: for an in-grid (x, y), get_neighbour_count returns the number of live
\* cells among the grid positions next to (x, y); nothing outside the grid
\* counts and nothing wraps round, so a corner counts at most 3, an edge cell
\* at most 5, the centre of a fully alive 3x3 grid 8, and 7 once a corner of
\* that grid is dead.
NeighbourCountIsLiveNeighbours ==
    (lastOp.op = "count" /\ InGrid(lastOp.x, lastOp.y)) =>
        /\ status = "ok"
        /\ ret = LiveNeighbours(board, LastCell)
        /\ (lastOp.x \in {0, size_x - 1} /\ lastOp.y \in {0, size_y - 1}) => ret <= 3
        /\ (lastOp.x \in {0, size_x - 1} \/ lastOp.y \in {0, size_y - 1}) => ret <= 5
        /\ (size_x = 3 /\ size_y = 3 /\ LastCell = <<1, 1>>) =>
               /\ population = 9 => ret = 8
               /\ (population = 8 /\ \E c \in {0, 2} \X {0, 2} : ~Alive(board, c)) => ret = 7

\* C3 witness: the centre of the fully alive 3x3 grid has been counted as 8.
CentreOfFullGridCounted ==
    /\ lastOp.op = "count"
    /\ size_x = 3 /\ size_y = 3
    /\ LastCell = <<1, 1>>
    /\ \A c \in GridCells : Alive(board, c)
    /\ ret = 8

\* C4: player_toggle_cell with an in-grid (x, y) flips the cell at row y,
\* column x, moves population by one with it (up when the cell comes alive,
\* down when it dies), and leaves every other cell and both sizes as they were.
ToggleFlipsOneCell ==
    (lastOp.op = "toggle" /\ InGridOf(prev.size_x, prev.size_y, lastOp.x, lastOp.y)) =>
        /\ status = "ok"
        /\ size_x = prev.size_x
        /\ size_y = prev.size_y
        /\ HasShape(board, size_x, size_y)
        /\ \/ /\ ~Alive(prev.board, LastCell)
              /\ Alive(board, LastCell)
              /\ population = prev.population + 1
           \/ /\ Alive(prev.board, LastCell)
              /\ board[lastOp.y + 1][lastOp.x + 1] = 0
              /\ population = prev.population - 1
        /\ \A c \in GridCells \ {LastCell} :
               board[c[2] + 1][c[1] + 1] = prev.board[c[2] + 1][c[1] + 1]

\* C4 witness: a live cell has been toggled dead while other cells live on.
ToggledDeadAmongLive ==
    /\ lastOp.op = "toggle"
    /\ InGrid(lastOp.x, lastOp.y)
    /\ status = "ok"
    /\ ~Alive(board, LastCell)
    /\ population > 0

\* C5: two calls in a row of player_toggle_cell with the same in-grid (x, y)
\* give back the cells and the population that were there before the two.
ToggleTwiceRestores ==
    [][(/\ lastOp.op = "toggle"
        /\ status = "ok"
        /\ InGrid(lastOp.x, lastOp.y)
        /\ lastOp' = lastOp)
       => (/\ status' = "ok"
           /\ board' = prev.board
           /\ population' = prev.population)]_vars

\* C5 witness: the same in-grid cell toggled twice in a row on a grid that
\* has live cells.
ToggledTwice ==
    /\ lastOp.op = "toggle"
    /\ streak = 2
    /\ InGrid(lastOp.x, lastOp.y)
    /\ status = "ok"
    /\ population > 0

\* C6: clear_board leaves every cell dead and population 0, and a second
\* clear_board right after it changes nothing.
ClearEmptiesAndIsIdempotent ==
    lastOp.op = "clear" =>
        /\ status = "ok"
        /\ HasShape(board, size_x, size_y)
        /\ \A c \in GridCells : ~Alive(board, c)
        /\ population = 0
        /\ streak = 2 => (board = prev.board /\ population = prev.population)

\* C6 witness: clear_board called twice in a row.
ClearedTwice == lastOp.op = "clear" /\ streak = 2 /\ status = "ok"

\* C7: Board::new(w, h) with positive w and h gives h rows of w cells, all
\* dead, and population 0.
NewBoardIsEmpty ==
    (lastOp.op = "new" /\ size_x > 0 /\ size_y > 0) =>
        /\ status = "ok"
        /\ HasShape(board, size_x, size_y)
        /\ \A c \in GridCells : board[c[2] + 1][c[1] + 1] = 0
        /\ population = 0

\* C7 witness: a freshly built board that is wider than it is high.
NewBoardWiderThanHigh == lastOp.op = "new" /\ size_x > size_y /\ size_y > 1

\* C8: player_toggle_cell with (x, y) outside the grid panics and leaves the
\* cells and the population as they were; no cell of the grid is flipped in
\* place of the one asked for.
ToggleOutOfGridPanics ==
    (lastOp.op = "toggle" /\ ~InGridOf(prev.size_x, prev.size_y, lastOp.x, lastOp.y)) =>
        /\ status = "panicked"
        /\ board = prev.board
        /\ population = prev.population

\* C8 witness: a toggle left of the grid, in an existing row, has panicked on
\* a grid that has live cells.
ToggledLeftOfGrid ==
    /\ lastOp.op = "toggle"
    /\ lastOp.x < 0
    /\ lastOp.y \in 0..(size_y - 1)
    /\ status = "panicked"
    /\ population > 0

\* C9: get_neighbour_count with (x, y) outside the grid panics instead of
\* returning a count.
CountOutOfGridPanics ==
    (lastOp.op = "count" /\ ~InGrid(lastOp.x, lastOp.y)) => status = "panicked"

\* C10: Board::new never produces a board whose size_x or size_y is zero or
\* negative.
NoBoardOfNonPositiveSize == size_x > 0 /\ size_y > 0

\* C11: on the 5 x 5 grid whose live cells are exactly row 2, columns 1 to 3,
\* the state after n ticks has population 3 and its live cells are exactly
\* row 2, columns 1 to 3 when n is even and exactly column 2, rows 1 to 3 when
\* n is odd.
BlinkerAlternates ==
    /\ population = 3
    /\ nops % 2 = 0 => board = BlinkerHorizontal
    /\ nops % 2 = 1 => board = BlinkerVertical

\* C11 witness: the blinker has come back to its row after turning into the
\* column, more than once.
BlinkerCameBack ==
    /\ lastOp.op = "tick"
    /\ nops >= 4
    /\ board = BlinkerHorizontal
    /\ prev.board = BlinkerVertical

\* C12: a tick of a grid whose cells are all dead and whose population is 0,
\* be it fresh, cleared or the result of earlier ticks, leaves every cell dead
\* and the population 0; so the empty grid stays empty after any number of
\* ticks.
EmptyStaysEmpty ==
    (lastOp.op = "tick" /\ AllDead(prev.board) /\ prev.population = 0) =>
        (AllDead(board) /\ population = 0)

\* C12 witness: the second tick in a row of an empty grid of several cells.
EmptyTickedTwice ==
    /\ lastOp.op = "tick"
    /\ streak = 2
    /\ AllDead(prev.board)
    /\ prev.population = 0
    /\ AllDead(next_board)
    /\ size_x > 1
    /\ size_y > 1

\* C13: a grid whose live cells are one 2 x 2 block with at least one dead
\* cell between the block and every edge is left as it is by tick, cells and
\* population (4) alike, wherever the block lies.
BlockIsStill ==
    /\ \E p \in BlockPlaces(size_x, size_y) : board = BlockAt(size_x, size_y, p[1], p[2])
    /\ population = 4
    /\ lastOp.op = "tick" => (board = prev.board /\ population = prev.population)

\* C13 witness: a block one cell away from the right and the bottom edge of
\* a grid wider than high has been ticked several times.
BlockNearCornerTicked ==
    /\ lastOp.op = "tick"
    /\ nops >= 3
    /\ size_x > size_y
    /\ board = BlockAt(size_x, size_y, size_x - 3, size_y - 3)

\* C14: tick is a function of the sizes and the cells of board alone: a grid
\* of any buffer next_board and any population ends a tick with the board and
\* the population that a freshly built grid of the same sizes and the same
\* cells ends it with; so any two grids of equal sizes and cells agree after
\* a tick.
TickReadsCellsOnly ==
    lastOp.op = "tick" =>
        LET fresh == TickCells(prev.board, make_board(size_x, size_y),
                               size_x, size_y, 0, 0, 0, FALSE)
        IN  board = fresh.next /\ population = fresh.pop

\* C14 witness: a tick of a grid whose population did not match its cells has
\* brought forth a generation with live and dead cells.
TickedWithForeignPopulation ==
    /\ lastOp.op = "tick"
    /\ prev.population /= LiveCells(prev.board)
    /\ population > 0
    /\ population < size_x * size_y
    /\ board /= prev.board
    /\ size_x > size_y

\* C16: tick counts population anew: whatever the cells and whatever number
\* the public field population held before, after a tick population is the
\* number of live cells of the new board.
TickRecountsPopulation ==
    lastOp.op = "tick" => population = LiveCells(board)

\* C16 witness: a tick of a grid with live cells whose population field said 0
\* has ended with live cells.
TickedFromZeroPopulation ==
    /\ lastOp.op = "tick"
    /\ prev.population = 0
    /\ \lnot AllDead(prev.board)
    /\ population > 0

\* C15: the sizes never change and the two buffers keep their shape: in
\* every state size_x and size_y are what they were before the last
\* operation, hence what Board::new was given, and board and next_board each
\* have size_y rows of size_x cells, before and after the buffers are swapped.
SizesAndShapesAreKept ==
    /\ HasShape(board, size_x, size_y)
    /\ HasShape(next_board, size_x, size_y)
    /\ lastOp.op /= "new" => (size_x = prev.size_x /\ size_y = prev.size_y)

\* C15 witness: the buffers of a grid higher than wide have been swapped,
\* with live cells in both.
SwappedHigherThanWide ==
    /\ lastOp.op = "tick"
    /\ size_x < size_y
    /\ \lnot AllDead(board)
    /\ \lnot AllDead(next_board)

\* The pixel p lies outside the area the board is drawn on.
OutsideBoardArea(p) ==
    \/ p[1] < 0
    \/ p[1] >= size_x * CELL_SIZE
    \/ p[2] < 0
    \/ p[2] >= size_y * CELL_SIZE

\* The step is main's call of player_toggle_cell.
LeftButtonPressed == nops' = nops + 1 /\ lastOp'.op = "toggle"

\* C17: when the left mouse button is pressed while the last cursor position
\* main was told lies outside the board area, no cell of the board is toggled
\* and the program does not panic.
OffGridPressIsFiltered ==
    [][(LeftButtonPressed /\ cursor_pos /= <<>> /\ OutsideBoardArea(cursor_pos)) =>
           (status' = "ok" /\ board' = board /\ population' = population)]_vars

\* The step is a call of tick or of clear_board made by main.
TickCalled == nops' = nops + 1 /\ lastOp'.op = "tick"
ClearCalled == nops' = nops + 1 /\ lastOp'.op = "clear"

\* C18: every step of main that calls board.tick(), for the single step key
\* or for the auto tick, adds exactly 1 to generation; every step that calls
\* board.clear_board() sets it to 0; no other step changes it.  Hence
\* generation is the number of tick calls since the last clear_board call or
\* since the start.
GenerationCountsTicks ==
    [][/\ TickCalled => generation' = generation + 1
       /\ ClearCalled => generation' = 0
       /\ (~TickCalled /\ ~ClearCalled) => generation' = generation]_vars

\* C18 witness: with Key::F held, two generations in a row have been counted
\* after the board was cleared or built.
TwoGenerationsCounted ==
    /\ lastOp.op = "tick"
    /\ streak = 2
    /\ generation = 2
    /\ "F" \in pressed_keys
    /\ nops > 2

\* C19: in every state reached from Board::new by toggles inside the grid,
\* tick and clear_board, no operation has panicked; population is at least 1
\* whenever a cell is alive, so that the decrement of player_toggle_cell never
\* underflows; and tick, clear_board and player_toggle_cell for every cell of
\* the grid can be called again, so that no such state is an end.  (Of tick
\* it is the call that is tested for being enabled: past the call its loops
\* have no condition to wait for, and every state that they end in is tested
\* for being ok.)
InGridOpsNeverAbort ==
    /\ status = "ok"
    /\ \A c \in GridCells : Alive(board, c) => population >= 1
    /\ nops < MaxOps =>
           /\ ENABLED Called([op |-> "tick", x |-> 0, y |-> 0])
           /\ ENABLED Clear
           /\ \A c \in GridCells :
                  ENABLED (player_toggle_cell(c[1], c[2]) /\ UNCHANGED loop)

\* C19 witness: after other operations, the last live cell of a grid has been
\* toggled and the population has come down to 0.
LastLiveCellToggled ==
    /\ lastOp.op = "toggle"
    /\ status = "ok"
    /\ nops >= 3
    /\ Alive(prev.board, LastCell)
    /\ prev.population = 1
    /\ population = 0

\* C20: on a grid with sizes up to 127, for every cell (x, y) of the grid the
\* coordinates x - 1, x + 1, y - 1, y + 1 that get_neighbour_count computes
\* lie in [-1, 127] and the count it returns lies in [0, 8]; so neither
\* get_neighbour_count nor tick overflows an i8, in a build of either kind.
NoI8Overflow ==
    /\ status = "ok"
    /\ lastOp.op = "count" =>
           /\ ret \in 0..8
           /\ \A d \in {0 - 1, 1} :
                  /\ lastOp.x + d \in (0 - 1)..I8Max
                  /\ lastOp.y + d \in (0 - 1)..I8Max
                  /\ \lnot OverflowsI8(lastOp.x + d)
                  /\ \lnot OverflowsI8(lastOp.y + d)

\* C20 witness: the neighbours of the last cell of a row of 127 live cells
\* have been counted, x + 1 being 127.
CountedAtLastColumn ==
    /\ lastOp.op = "count"
    /\ size_x = I8Max
    /\ lastOp.x = I8Max - 1
    /\ lastOp.y = 1
    /\ ret = 5

====
